---- MODULE Spec2Model ----
(***************************************************************************)
(* StockAlert (src/main.py): two monitor threads, one per asset, poll a    *)
(* price source, compare the drop from a smoothed 3-month peak with a      *)
(* per-asset adaptive threshold kept in <asset>_threshold.json, send an    *)
(* e-mail when the drop reaches the threshold, and stop together through   *)
(* a shared threading.Event.                                               *)
(*                                                                         *)
(* Numbers.  Percentages are fixed-point integers, Scale units per 1%      *)
(* (5.0% is 5*Scale).  Prices are integers.  The clock counts ticks; one   *)
(* day is Day ticks.  datetime.isoformat()/fromisoformat() and json's      *)
(* float repr keep the full value, so a stored state reads back as the     *)
(* value that was written.                                                 *)
(*                                                                         *)
(* Environment.  Reads of the threshold file, the two price fetches and    *)
(* the SMTP delivery may fail; writes of the threshold file succeed.  The  *)
(* historical-price cache only selects which series a fetch returns, so a  *)
(* fetch is a choice among the series of the asset's pool.  The sp500      *)
(* market moves (drops of 0%, 5% and 6% from a peak of 200) and may start  *)
(* from a stored threshold; the bitcoin market is flat, so the bitcoin     *)
(* monitor cycles, may fail and may be stopped, and never alerts.          *)
(*                                                                         *)
(* Threads.  Each monitor thread is a sequence of steps, one per blocking  *)
(* call of monitor_asset; the steps of the two monitors, of the main       *)
(* thread and of the clock interleave freely.  join() does not re-raise a  *)
(* thread's exception, so the except Exception clause of the main thread   *)
(* has no step.                                                            *)
(***************************************************************************)
EXTENDS Integers, Sequences, FiniteSets, TLC

\* ------------------------------------------------------------------ bounds
Scale ==
  2
Day ==
  2
MaxTime ==
  2
MaxSeriesLen ==
  12

\* ------------------------------------------------------------- program data
Assets == {"sp500", "bitcoin"}

NoRecord == [exists |-> FALSE]

Max(x, y) == IF x >= y THEN x ELSE y
Min(x, y) == IF x <= y THEN x ELSE y

\* timedelta(days=1), src/main.py:122
OneDay == Day
\* 5.0 and 1.0 of src/main.py:112,123,200 in fixed point
Baseline == 5 * Scale
OnePercent == Scale
\* [:10] of src/main.py:187
TopCount ==
  10

\* --------------------------------------------------------------- environment
\* Series the price source may return for an asset (src/main.py:36-81).
LongSeries(hi, lo) == [i \in 1..12 |-> IF i <= 2 THEN lo ELSE hi]

HistoricalPool(a) ==
  IF a = "sp500"
  THEN {LongSeries(200, 180), <<200, 200, 200>>, <<>>, <<0, 0>>}
  ELSE {LongSeries(300, 240)}

\* Prices the price source may return as the latest quote (src/main.py:83-106).
CurrentPool(a) ==
  IF a = "sp500" THEN {200, 190, 188} ELSE {300}

\* Threshold files that may be on disk when the process starts at time 0: none,
\* or a record written by an earlier run a day before.
InitialThresholds(a) ==
  IF a = "sp500" THEN {Baseline + 1} ELSE {}

InitialStore(a) ==
  {NoRecord} \cup
  {[exists |-> TRUE, threshold_percent |-> t, last_updated |-> 0 - OneDay] :
     t \in InitialThresholds(a)}

\* ------------------------------------------------------------ pure functions
RECURSIVE SumSeq(_)
SumSeq(s) == IF s = <<>> THEN 0 ELSE Head(s) + SumSeq(Tail(s))

MaxOf(s) == CHOOSE x \in {s[i] : i \in DOMAIN s} : \A j \in DOMAIN s : s[j] <= x

RemoveAt(s, k) == [i \in 1..(Len(s) - 1) |-> IF i < k THEN s[i] ELSE s[i + 1]]

\* sorted(historical_prices, reverse=True)
RECURSIVE SortedDesc(_)
SortedDesc(s) ==
  IF s = <<>> THEN <<>>
  ELSE LET m == MaxOf(s)
           k == CHOOSE i \in DOMAIN s : s[i] = m
       IN  <<m>> \o SortedDesc(RemoveAt(s, k))

\* s[:n]
Take(s, n) == SubSeq(s, 1, Min(n, Len(s)))

\* statistics.mean(sorted(historical_prices, reverse=True)[:10]); the caller
\* handles the empty series, on which statistics.mean raises.
SmoothedPeakOfFirst(s) ==
  LET top == Take(s, TopCount)
  IN  SumSeq(top) \div Len(top)

SmoothedPeak(s) ==
  LET top == Take(SortedDesc(s), TopCount)
  IN  SumSeq(top) \div Len(top)

\* ((smoothed_peak - current_price) / smoothed_peak) * 100, peak # 0
DropPercent(peak, price) == ((peak - price) * 100 * Scale) \div peak

\* current_drop_percent >= threshold_percent
AlertDueStrict(drop, threshold) == drop > threshold

AlertDueInverted(drop, threshold) == drop <= threshold

AlertDue(drop, threshold) == drop >= threshold

\* new_threshold = current_drop_percent + 1.0
TightenedBySame(drop) == drop

Tightened(drop) == drop + OnePercent

\* datetime.now() - last_updated >= timedelta(days=1)
DecayDueEarly(last_updated, t) == t - last_updated >= OneDay - 1

DecayDueAlways(last_updated, t) == TRUE

DecayDue(last_updated, t) == t - last_updated >= OneDay

\* max(5.0, state['threshold_percent'] - 1.0)
DecayedUnfloored(threshold) == threshold - OnePercent

Decayed(threshold) == Max(Baseline, threshold - OnePercent)


\* -------------------------------------------------------------------- state
VARIABLES
  now,                  \* the wall clock, datetime.now()
  stop_event,           \* threading.Event shared by the threads
  email_configured,     \* SENDER_EMAIL, SENDER_PASSWORD, RECIPIENT_EMAIL all set
  main_pc,              \* position of the main thread
  store,                \* <asset>_threshold.json, per asset
  pc,                   \* position of each monitor thread
  threshold_percent,    \* locals of monitor_asset, per asset
  historical_prices,
  smoothed_peak,
  current_drop_percent,
  cycle,                \* bookkeeping of the current cycle, per asset
  history               \* bookkeeping across cycles, per asset

vars ==
  <<now, stop_event, email_configured, main_pc, store, pc, threshold_percent,
    historical_prices, smoothed_peak, current_drop_percent, cycle, history>>

locals == <<threshold_percent, historical_prices, smoothed_peak, current_drop_percent>>

\* What has happened since the top-of-loop check of the current cycle.
NewCycle(a) ==
  [before        |-> store[a],   \* the threshold file when the cycle began
   decayWrites   |-> 0,          \* save_threshold_state calls of get_threshold_state
   tightenWrites |-> 0,          \* save_threshold_state calls of the alert branch
   alertCalls    |-> 0,          \* send_email calls
   errorCalls    |-> 0,          \* send_notification_email calls of the except block
   outcome       |-> "none",     \* how the alert's e-mail ended
   failure       |-> "none"]     \* what raised: the threshold read, a price
                                 \* fetch, or the peak or drop computation

\* What has happened to the threshold since the initial record or the last
\* tighten write.
NewHistory(t, drop) ==
  [base      |-> t,         \* threshold of the initial record or of the last tighten
   at        |-> now,       \* time of that tighten, or of the start of the run
   alertDrop |-> drop,      \* drop of the alert that wrote it, -1 if none did
   decays    |-> 0,         \* decay writes since then
   reads     |-> 0,         \* threshold reads since then, up to 1
   readAt    |-> -1]        \* time of the latest of these reads if less than a
                            \* day ago, else -1

Init ==
  /\ now = 0
  /\ stop_event = FALSE
  /\ email_configured \in BOOLEAN
  /\ main_pc = "startup"
  /\ store \in {f \in [Assets -> UNION {InitialStore(a) : a \in Assets}] :
                  \A a \in Assets : f[a] \in InitialStore(a)}
  /\ pc = [a \in Assets |-> "idle"]
  /\ threshold_percent = [a \in Assets |-> 0]
  /\ historical_prices = [a \in Assets |-> <<>>]
  /\ smoothed_peak = [a \in Assets |-> 0]
  /\ current_drop_percent = [a \in Assets |-> 0]
  /\ cycle = [a \in Assets |-> NewCycle(a)]
  /\ history = [a \in Assets |->
       NewHistory(IF store[a].exists THEN store[a].threshold_percent ELSE Baseline, -1)]

\* ------------------------------------------------------------ threshold store
\* get_threshold_state up to the decision to decay: the state it works on.
LoadedStateIgnoringFile(a, t) ==
  [exists |-> TRUE, threshold_percent |-> Baseline, last_updated |-> t]

LoadedState(a, t) ==
  IF store[a].exists
  THEN store[a]
  ELSE [exists |-> TRUE, threshold_percent |-> Baseline, last_updated |-> t]

\* get_threshold_state: the state it returns and whether it saved it.
get_threshold_state_saving(a, t) ==
  LET state == LoadedState(a, t)
  IN  [state |-> [state EXCEPT !.last_updated = t], saved |-> TRUE]

get_threshold_state_creating(a, t) ==
  LET state == LoadedState(a, t)
  IN  IF DecayDue(state.last_updated, t)
      THEN [state |-> [exists |-> TRUE,
                       threshold_percent |-> Decayed(state.threshold_percent),
                       last_updated |-> t],
            saved |-> TRUE]
      ELSE [state |-> state, saved |-> ~store[a].exists]

get_threshold_state(a, t) ==
  LET state == LoadedState(a, t)
  IN  IF DecayDue(state.last_updated, t)
      THEN [state |-> [exists |-> TRUE,
                       threshold_percent |-> Decayed(state.threshold_percent),
                       last_updated |-> t],
            saved |-> TRUE]
      ELSE [state |-> state, saved |-> FALSE]

\* The state written by the alert branch of monitor_asset.
TightenedStateDateOnly(drop, t) ==
  [exists |-> TRUE, threshold_percent |-> Tightened(drop),
   last_updated |-> (t \div OneDay) * OneDay]

TightenedState(drop, t) ==
  [exists |-> TRUE, threshold_percent |-> Tightened(drop), last_updated |-> t]

\* -------------------------------------------------------------------- notifier
\* send_notification_email: log only when unconfigured, else one SMTP session
\* that delivers or fails; the failure is caught and logged.
send_notification_email == IF email_configured THEN {"sent", "failed"} ELSE {"logged"}

\* Where monitor_asset goes after send_email returned with the given outcome.
AfterAlertResending(outcome) == IF outcome = "failed" THEN "alert" ELSE "tighten"

AfterAlertRaising(outcome) == IF outcome = "failed" THEN "error" ELSE "tighten"

AfterAlert(outcome) == "tighten"

\* An exception leaves the while loop for the except block of monitor_asset.
RaiseCaughtInLoop(a, step) ==
  /\ pc' = [pc EXCEPT ![a] = "sleep"]
  /\ cycle' = [cycle EXCEPT ![a].failure = step]

Raise(a, step) ==
  /\ pc' = [pc EXCEPT ![a] = "error"]
  /\ cycle' = [cycle EXCEPT ![a].failure = step]

\* --------------------------------------------------------------- monitor_asset
\* while not stop_event.is_set(): the top-of-loop check.
LoopCheckIgnoringStop(a) ==
  /\ pc[a] = "check"
  /\ pc' = [pc EXCEPT ![a] = "threshold"]
  /\ UNCHANGED <<now, stop_event, email_configured, main_pc, store, locals, cycle, history>>

LoopCheck(a) ==
  /\ pc[a] = "check"
  /\ pc' = [pc EXCEPT ![a] = IF stop_event THEN "stopped" ELSE "threshold"]
  /\ UNCHANGED <<now, stop_event, email_configured, main_pc, store, locals, cycle, history>>

\* threshold_state = get_threshold_state(asset_type): reading an existing file
\* may raise; a due decay is saved before the call returns.
GetThresholdUndecayed(a) ==
  /\ pc[a] = "threshold"
  /\ \E readable \in (IF store[a].exists THEN BOOLEAN ELSE {TRUE}) :
       IF ~readable
       THEN /\ Raise(a, "threshold")
            /\ UNCHANGED <<store, locals, history>>
       ELSE LET r == get_threshold_state(a, now)
            IN  /\ store' = IF r.saved THEN [store EXCEPT ![a] = r.state] ELSE store
                /\ threshold_percent' =
                     [threshold_percent EXCEPT ![a] = LoadedState(a, now).threshold_percent]
                /\ pc' = [pc EXCEPT ![a] = "historical"]
                /\ cycle' = [cycle EXCEPT ![a].decayWrites = IF r.saved THEN @ + 1 ELSE @]
                /\ history' = [history EXCEPT
                     ![a].decays = IF r.saved THEN @ + 1 ELSE @,
                     ![a].reads = Min(1, @ + 1),
                     ![a].readAt = now]
                /\ UNCHANGED <<historical_prices, smoothed_peak, current_drop_percent>>
  /\ UNCHANGED <<now, stop_event, email_configured, main_pc>>

GetThreshold(a) ==
  /\ pc[a] = "threshold"
  /\ \E readable \in (IF store[a].exists THEN BOOLEAN ELSE {TRUE}) :
       IF ~readable
       THEN /\ Raise(a, "threshold")
            /\ UNCHANGED <<store, locals, history>>
       ELSE LET r == get_threshold_state(a, now)
            IN  /\ store' = IF r.saved THEN [store EXCEPT ![a] = r.state] ELSE store
                /\ threshold_percent' =
                     [threshold_percent EXCEPT ![a] = r.state.threshold_percent]
                /\ pc' = [pc EXCEPT ![a] = "historical"]
                /\ cycle' = [cycle EXCEPT ![a].decayWrites = IF r.saved THEN @ + 1 ELSE @]
                /\ history' = [history EXCEPT
                     ![a].decays = IF r.saved THEN @ + 1 ELSE @,
                     ![a].reads = Min(1, @ + 1),
                     ![a].readAt = now]
                /\ UNCHANGED <<historical_prices, smoothed_peak, current_drop_percent>>
  /\ UNCHANGED <<now, stop_event, email_configured, main_pc>>

\* historical_prices = get_historical_prices(asset_type), which may raise, and
\* smoothed_peak = statistics.mean(...), which raises on an empty series.
GetHistorical(a) ==
  /\ pc[a] = "historical"
  /\ \E fetched \in BOOLEAN :
       IF ~fetched
       THEN /\ Raise(a, "fetch")
            /\ UNCHANGED <<historical_prices, smoothed_peak>>
       ELSE \E series \in HistoricalPool(a) :
              /\ historical_prices' = [historical_prices EXCEPT ![a] = series]
              /\ IF series = <<>>
                 THEN /\ Raise(a, "compute")
                      /\ UNCHANGED smoothed_peak
                 ELSE /\ smoothed_peak' = [smoothed_peak EXCEPT ![a] = SmoothedPeak(series)]
                      /\ pc' = [pc EXCEPT ![a] = "current"]
                      /\ UNCHANGED cycle
  /\ UNCHANGED <<now, stop_event, email_configured, main_pc, store,
                 threshold_percent, current_drop_percent, history>>

\* current_price = get_current_price(asset_type), which may raise; the drop,
\* whose division raises on a zero peak; and the alert decision.
GetCurrentRecording(a) ==
  /\ pc[a] = "current"
  /\ \E fetched \in BOOLEAN :
       IF ~fetched
       THEN /\ Raise(a, "fetch")
            /\ UNCHANGED <<current_drop_percent, store>>
       ELSE \E current_price \in CurrentPool(a) :
              IF smoothed_peak[a] = 0
              THEN /\ Raise(a, "compute")
                   /\ UNCHANGED <<current_drop_percent, store>>
              ELSE LET drop == DropPercent(smoothed_peak[a], current_price)
                   IN  /\ current_drop_percent' = [current_drop_percent EXCEPT ![a] = drop]
                       /\ pc' = [pc EXCEPT ![a] =
                            IF AlertDue(drop, threshold_percent[a]) THEN "alert" ELSE "sleep"]
                       /\ store' =
                            IF AlertDue(drop, threshold_percent[a])
                            THEN store
                            ELSE [store EXCEPT ![a] =
                                    [exists |-> TRUE,
                                     threshold_percent |-> threshold_percent[a],
                                     last_updated |-> now]]
                       /\ UNCHANGED cycle
  /\ UNCHANGED <<now, stop_event, email_configured, main_pc,
                 threshold_percent, historical_prices, smoothed_peak, history>>

GetCurrent(a) ==
  /\ pc[a] = "current"
  /\ \E fetched \in BOOLEAN :
       IF ~fetched
       THEN /\ Raise(a, "fetch")
            /\ UNCHANGED current_drop_percent
       ELSE \E current_price \in CurrentPool(a) :
              IF smoothed_peak[a] = 0
              THEN /\ Raise(a, "compute")
                   /\ UNCHANGED current_drop_percent
              ELSE LET drop == DropPercent(smoothed_peak[a], current_price)
                   IN  /\ current_drop_percent' = [current_drop_percent EXCEPT ![a] = drop]
                       /\ pc' = [pc EXCEPT ![a] =
                            IF AlertDue(drop, threshold_percent[a]) THEN "alert" ELSE "sleep"]
                       /\ UNCHANGED cycle
  /\ UNCHANGED <<now, stop_event, email_configured, main_pc, store,
                 threshold_percent, historical_prices, smoothed_peak, history>>

\* send_email(...): the notifier never raises into the monitor.
SendAlert(a) ==
  /\ pc[a] = "alert"
  /\ \E outcome \in send_notification_email :
       /\ cycle' = [cycle EXCEPT ![a].alertCalls = @ + 1, ![a].outcome = outcome]
       /\ pc' = [pc EXCEPT ![a] = AfterAlert(outcome)]
  /\ UNCHANGED <<now, stop_event, email_configured, main_pc, store, locals, history>>

\* save_threshold_state(asset_type, {current_drop_percent + 1.0, now}).
TightenUnlessStopped(a) ==
  /\ pc[a] = "tighten"
  /\ IF stop_event
     THEN /\ pc' = [pc EXCEPT ![a] = "stopped"]
          /\ UNCHANGED <<store, cycle, history>>
     ELSE /\ store' = [store EXCEPT ![a] = TightenedState(current_drop_percent[a], now)]
          /\ cycle' = [cycle EXCEPT ![a].tightenWrites = @ + 1]
          /\ history' = [history EXCEPT ![a] = NewHistory(store'[a].threshold_percent, current_drop_percent[a])]
          /\ pc' = [pc EXCEPT ![a] = "sleep"]
  /\ UNCHANGED <<now, email_configured, stop_event, main_pc, locals>>

TightenSharedFile(a) ==
  /\ pc[a] = "tighten"
  /\ store' = [b \in Assets |-> TightenedState(current_drop_percent[a], now)]
  /\ cycle' = [cycle EXCEPT ![a].tightenWrites = @ + 1]
  /\ history' = [history EXCEPT ![a] = NewHistory(store'[a].threshold_percent, current_drop_percent[a])]
  /\ pc' = [pc EXCEPT ![a] = "sleep"]
  /\ UNCHANGED <<now, stop_event, email_configured, main_pc, locals>>

Tighten(a) ==
  /\ pc[a] = "tighten"
  /\ store' = [store EXCEPT ![a] = TightenedState(current_drop_percent[a], now)]
  /\ cycle' = [cycle EXCEPT ![a].tightenWrites = @ + 1]
  /\ history' = [history EXCEPT ![a] = NewHistory(store'[a].threshold_percent, current_drop_percent[a])]
  /\ pc' = [pc EXCEPT ![a] = "sleep"]
  /\ UNCHANGED <<now, stop_event, email_configured, main_pc, locals>>

\* time.sleep(check_interval) returns; the clock advances by Tick meanwhile.
\* The locals are dead here: each is assigned again before its next use.
Sleep(a) ==
  /\ pc[a] = "sleep"
  /\ pc' = [pc EXCEPT ![a] = "check"]
  /\ threshold_percent' = [threshold_percent EXCEPT ![a] = 0]
  /\ historical_prices' = [historical_prices EXCEPT ![a] = <<>>]
  /\ smoothed_peak' = [smoothed_peak EXCEPT ![a] = 0]
  /\ current_drop_percent' = [current_drop_percent EXCEPT ![a] = 0]
  /\ cycle' = [cycle EXCEPT ![a] = NewCycle(a)]
  /\ UNCHANGED <<now, stop_event, email_configured, main_pc, store, history>>

\* except Exception: LOG.error and the failure notification.
NotifyError(a) ==
  /\ pc[a] = "error"
  /\ \E outcome \in send_notification_email :
       cycle' = [cycle EXCEPT ![a].errorCalls = @ + 1]
  /\ pc' = [pc EXCEPT ![a] = "set_stop"]
  /\ UNCHANGED <<now, stop_event, email_configured, main_pc, store, locals, history>>

\* stop_event.set() and raise: the thread ends, and its locals with it.
SetStop(a) ==
  /\ pc[a] = "set_stop"
  /\ stop_event' = TRUE
  /\ pc' = [pc EXCEPT ![a] = "dead"]
  /\ threshold_percent' = [threshold_percent EXCEPT ![a] = 0]
  /\ historical_prices' = [historical_prices EXCEPT ![a] = <<>>]
  /\ smoothed_peak' = [smoothed_peak EXCEPT ![a] = 0]
  /\ current_drop_percent' = [current_drop_percent EXCEPT ![a] = 0]
  /\ UNCHANGED <<now, email_configured, main_pc, store, cycle, history>>

monitor_asset(a) ==
  \/ LoopCheck(a)
  \/ GetThreshold(a)
  \/ GetHistorical(a)
  \/ GetCurrent(a)
  \/ SendAlert(a)
  \/ Tighten(a)
  \/ Sleep(a)
  \/ NotifyError(a)
  \/ SetStop(a)

\* ---------------------------------------------------------------- main thread
Ended(a) == pc[a] \in {"stopped", "dead"}

\* logger_setup() and the start-up notification.
Startup ==
  /\ main_pc = "startup"
  /\ main_pc' = "start_sp500"
  /\ UNCHANGED <<now, stop_event, email_configured, store, pc, locals, cycle, history>>

\* sp500_thread.start(), bitcoin_thread.start().
StartThread(a) ==
  /\ main_pc = "start_" \o a
  /\ pc' = [pc EXCEPT ![a] = "check"]
  /\ main_pc' = IF a = "sp500" THEN "start_bitcoin" ELSE "join_sp500"
  /\ UNCHANGED <<now, stop_event, email_configured, store, locals, cycle, history>>

\* sp500_thread.join(), bitcoin_thread.join().
Join(a) ==
  /\ main_pc = "join_" \o a
  /\ Ended(a)
  /\ main_pc' = IF a = "sp500" THEN "join_bitcoin" ELSE "done"
  /\ UNCHANGED <<now, stop_event, email_configured, store, pc, locals, cycle, history>>

\* Ctrl-C.  Inside the try it is caught and sets the stop signal; before the
\* try it ends the main thread and the threads already started keep running.
KeyboardInterrupt ==
  /\ main_pc \in {"startup", "start_sp500", "start_bitcoin", "join_sp500", "join_bitcoin"}
  /\ IF main_pc \in {"join_sp500", "join_bitcoin"}
     THEN /\ stop_event' = TRUE
          /\ main_pc' = "done"
     ELSE /\ main_pc' = "crashed"
          /\ UNCHANGED stop_event
  /\ UNCHANGED <<now, email_configured, store, pc, locals, cycle, history>>

\* The interpreter exits once the main thread and every started (non-daemon)
\* thread have ended.
ExitWithoutWaiting ==
  /\ main_pc \in {"done", "crashed"}
  /\ main_pc' = "exited"
  /\ UNCHANGED <<now, stop_event, email_configured, store, pc, locals, cycle, history>>

Exit ==
  /\ main_pc \in {"done", "crashed"}
  /\ \A a \in Assets : pc[a] = "idle" \/ Ended(a)
  /\ main_pc' = "exited"
  /\ UNCHANGED <<now, stop_event, email_configured, store, pc, locals, cycle, history>>

\* ----------------------------------------------------------------------- clock
\* A read older than a day is forgotten by the bookkeeping.
Aged(h, t) == IF h.readAt >= 0 /\ t - h.readAt >= OneDay THEN [h EXCEPT !.readAt = -1] ELSE h

Tick ==
  /\ now < MaxTime
  /\ main_pc # "exited"
  /\ now' = now + 1
  /\ history' = [a \in Assets |-> Aged(history[a], now')]
  /\ UNCHANGED <<stop_event, email_configured, main_pc, store, pc, locals, cycle>>

Next ==
  \/ \E a \in Assets : monitor_asset(a)
  \/ Startup
  \/ \E a \in Assets : StartThread(a)
  \/ \E a \in Assets : Join(a)
  \/ KeyboardInterrupt
  \/ Exit
  \/ Tick

Spec == Init /\ [][Next]_vars

\* Scheduling: a runnable thread is eventually run, and a blocking call (a
\* fetch, an SMTP session, time.sleep, join) eventually returns or raises.
MainStep == Startup \/ (\E a \in Assets : StartThread(a) \/ Join(a)) \/ Exit

FairSpec ==
  /\ Spec
  /\ \A a \in Assets : WF_vars(monitor_asset(a))
  /\ WF_vars(MainStep)


\* ------------------------------------------------------------- peak estimator
\* The peak computation of monitor_asset on its own, over every series of
\* TopCount to MaxSeriesLen prices drawn from PriceValues: the sp500 monitor has
\* fetched a series, computes its smoothed peak, and computes it again each
\* time the price source returns the same prices in another order.
PriceValues == {100, 200}

SeriesPool == UNION {[1..n -> PriceValues] : n \in TopCount..MaxSeriesLen}

PeakInit ==
  /\ now = 0
  /\ stop_event = FALSE
  /\ email_configured = FALSE
  /\ main_pc = "join_sp500"
  /\ store = [a \in Assets |-> NoRecord]
  /\ pc = [a \in Assets |-> IF a = "sp500" THEN "historical" ELSE "check"]
  /\ threshold_percent = [a \in Assets |-> IF a = "sp500" THEN Baseline ELSE 0]
  /\ \E series \in SeriesPool :
       historical_prices = [a \in Assets |-> IF a = "sp500" THEN series ELSE <<>>]
  /\ smoothed_peak = [a \in Assets |-> 0]
  /\ current_drop_percent = [a \in Assets |-> 0]
  /\ cycle = [a \in Assets |-> NewCycle(a)]
  /\ history = [a \in Assets |-> NewHistory(Baseline, -1)]

\* smoothed_peak = statistics.mean(sorted(historical_prices, reverse=True)[:10])
ComputePeak(a) ==
  /\ pc[a] = "historical"
  /\ historical_prices[a] # <<>>
  /\ smoothed_peak' = [smoothed_peak EXCEPT ![a] = SmoothedPeak(historical_prices[a])]
  /\ pc' = [pc EXCEPT ![a] = "current"]
  /\ UNCHANGED <<now, stop_event, email_configured, main_pc, store, threshold_percent,
                 historical_prices, current_drop_percent, cycle, history>>

\* The series with the prices at positions i and i + 1 exchanged.
Reordered(s, i) ==
  [k \in DOMAIN s |-> IF k = i THEN s[i + 1] ELSE IF k = i + 1 THEN s[i] ELSE s[k]]

FetchReordered(a) ==
  /\ pc[a] = "current"
  /\ \E i \in 1..(Len(historical_prices[a]) - 1) :
       historical_prices' =
         [historical_prices EXCEPT ![a] = Reordered(historical_prices[a], i)]
  /\ smoothed_peak' = [smoothed_peak EXCEPT ![a] = SmoothedPeak(historical_prices'[a])]
  /\ UNCHANGED <<now, stop_event, email_configured, main_pc, store, pc, threshold_percent,
                 current_drop_percent, cycle, history>>

PeakNext == ComputePeak("sp500") \/ FetchReordered("sp500")

PeakSpec == PeakInit /\ [][PeakNext]_vars


\* ----------------------------------------------------------------- properties
\* The threshold a read of the store returns now, the file being as it is.
StoredThreshold(a) == IF store[a].exists THEN store[a].threshold_percent ELSE Baseline

InCycle(a) == pc[a] \in {"historical", "current", "alert", "tighten"}

\* C1: in a cycle that reaches the alert decision, the alert is sent if and
\* only if the drop is at least the threshold returned by the cycle's
\* threshold read; a drop equal to the threshold alerts.
C1_AlertIffDropReachesThreshold ==
  \A a \in Assets :
    /\ pc[a] \in {"historical", "current", "alert"} =>
         threshold_percent[a] = StoredThreshold(a)
    /\ pc[a] \in {"alert", "tighten"} => current_drop_percent[a] >= threshold_percent[a]
    /\ pc[a] = "sleep" =>
         (cycle[a].alertCalls = 1 <=> current_drop_percent[a] >= threshold_percent[a])

C1_BoundaryAlerts ==
  \E a \in Assets :
    /\ pc[a] = "sleep"
    /\ cycle[a].alertCalls = 1
    /\ current_drop_percent[a] = threshold_percent[a]

\* C2 as stated: after an alert at drop D, no later cycle alerts unless its
\* drop is at least D + 1.0, however many cycles follow.
C2_NeverRealertsBelowDPlusOne ==
  \A a \in Assets :
    (pc[a] = "alert" /\ history[a].alertDrop >= 0) =>
      current_drop_percent[a] >= history[a].alertDrop + OnePercent

\* C2 amended: after an alert at drop D, and as long as no daily decay has been
\* written since that alert, no cycle alerts unless its drop is at least D + 1.0.
C2_NoRealertBeforeDecay ==
  \A a \in Assets :
    (pc[a] = "alert" /\ history[a].alertDrop >= 0 /\ history[a].decays = 0) =>
      current_drop_percent[a] >= history[a].alertDrop + OnePercent

C2_SecondAlertWithoutDecay ==
  \E a \in Assets :
    /\ pc[a] = "alert"
    /\ history[a].alertDrop >= 0
    /\ history[a].decays = 0

Failed(a, steps) == cycle[a].failure \in steps

\* C3 as stated: when the historical or the current-price fetch fails, the
\* threshold state is what it was when the cycle began and no alert is sent,
\* also when a decay was due.
C3_FailedFetchLeavesStateAsBefore ==
  \A a \in Assets :
    Failed(a, {"fetch"}) =>
      /\ store[a] = cycle[a].before
      /\ cycle[a].alertCalls = 0

\* C3 amended: when the historical or the current-price fetch fails, no alert
\* is sent and no tighten is written, and the threshold state is the one the
\* cycle's threshold read left: the state before the cycle, or, when a decay
\* was due, that state decayed by 1.0 floored at 5.0 with a later timestamp.
C3_FailedFetchLeavesStateAsRead ==
  \A a \in Assets :
    Failed(a, {"fetch"}) =>
      /\ cycle[a].alertCalls = 0
      /\ cycle[a].tightenWrites = 0
      /\ \/ store[a] = cycle[a].before
         \/ /\ cycle[a].before.exists
            /\ store[a].exists
            /\ store[a].threshold_percent =
                 Max(Baseline, cycle[a].before.threshold_percent - OnePercent)
            /\ store[a].last_updated - cycle[a].before.last_updated >= OneDay

C3_FetchFailedAfterDecay ==
  \E a \in Assets :
    /\ Failed(a, {"fetch"})
    /\ cycle[a].decayWrites = 1
    /\ store[a] # cycle[a].before

C5_OneCallOneWrite ==
  \A a \in Assets :
    /\ cycle[a].alertCalls + cycle[a].errorCalls <= 1
    /\ cycle[a].decayWrites + cycle[a].tightenWrites <= 1

\* C5 amended: a cycle makes at most one alert call and at most one failure
\* notification, and at most two writes of the threshold state: at most one
\* decay write by the threshold read and at most one tighten write, the latter
\* only after the alert call.
C5_OneCallOfEachKindTwoWrites ==
  \A a \in Assets :
    /\ cycle[a].alertCalls <= 1
    /\ cycle[a].errorCalls <= 1
    /\ cycle[a].decayWrites <= 1
    /\ cycle[a].tightenWrites <= cycle[a].alertCalls

C5_DecayAndTightenInOneCycle ==
  \E a \in Assets :
    /\ cycle[a].decayWrites = 1
    /\ cycle[a].tightenWrites = 1
    /\ cycle[a].alertCalls = 1


\* The step of GetThreshold in which get_threshold_state returns.
ReadStep(a) == pc[a] = "threshold" /\ pc'[a] = "historical"

\* C6: once the alert decision is positive, whatever the notifier does
\* (delivers, fails, or only logs because no recipient is configured, in which
\* case no delivery is attempted) the monitor goes on to write the threshold
\* state (drop + 1.0, now) and then to its sleep; the notifier never raises
\* into the monitor.
C6_TightenWhateverTheNotifier ==
  [][\A a \in Assets :
       /\ (pc[a] = "alert" /\ pc'[a] # "alert") =>
            /\ pc'[a] = "tighten"
            /\ cycle'[a].outcome \in {"sent", "failed", "logged"}
            /\ cycle'[a].outcome = "logged" <=> ~email_configured
            /\ cycle'[a].failure = "none"
       /\ (pc[a] = "tighten" /\ pc'[a] # "tighten") =>
            /\ pc'[a] = "sleep"
            /\ store'[a] = [exists |-> TRUE,
                            threshold_percent |-> current_drop_percent[a] + OnePercent,
                            last_updated |-> now]
       /\ (pc[a] = "sleep" /\ pc'[a] # "sleep") => pc'[a] = "check"]_vars

C6_TightenedAfterFailedDelivery ==
  \E a \in Assets :
    /\ pc[a] = "sleep"
    /\ cycle[a].outcome = "failed"
    /\ cycle[a].tightenWrites = 1
    /\ store[a].threshold_percent = current_drop_percent[a] + OnePercent

\* C7 as stated: a threshold read less than one day after the previous read,
\* with no tighten in between, returns the same threshold and writes nothing.
C7_SameWithinADayOfPreviousRead ==
  [][\A a \in Assets :
       (ReadStep(a) /\ history[a].readAt >= 0) =>
         /\ threshold_percent'[a] = StoredThreshold(a)
         /\ store'[a] = store[a]]_vars

\* lastUpdated of the state the previous read returned: the file's, or the
\* time of that read when there is no file.
ReturnedLastUpdated(a) ==
  IF store[a].exists THEN store[a].last_updated ELSE history[a].readAt

\* C7 amended: a threshold read less than one day after the lastUpdated of the
\* state the previous read returned, with no tighten in between, returns the
\* same threshold and writes nothing, whether or not the previous read decayed
\* and whether or not a record exists.
C7_SameWithinADayOfLastUpdated ==
  [][\A a \in Assets :
       (ReadStep(a) /\ history[a].readAt >= 0 /\ now - ReturnedLastUpdated(a) < OneDay) =>
         /\ threshold_percent'[a] = StoredThreshold(a)
         /\ store'[a] = store[a]]_vars

C7_SecondReadAfterDecayingRead ==
  \E a \in Assets :
    /\ pc[a] = "historical"
    /\ history[a].decays >= 1
    /\ cycle[a].decayWrites = 0
    /\ threshold_percent[a] = store[a].threshold_percent

\* C8: the first threshold read after an alert at drop D, less than one day
\* after the tighten write, returns exactly D + 1.0, which is above D, and a
\* cycle with drop D does not alert while no decay has been written.
C8_NextReadReturnsDPlusOne ==
  /\ [][\A a \in Assets :
          (/\ ReadStep(a)
           /\ history[a].alertDrop >= 0
           /\ history[a].reads = 0
           /\ now - store[a].last_updated < OneDay) =>
            /\ threshold_percent'[a] = history[a].alertDrop + OnePercent
            /\ threshold_percent'[a] > history[a].alertDrop]_vars
  /\ [](\A a \in Assets :
          (/\ pc[a] \in {"alert", "tighten"}
           /\ history[a].alertDrop >= 0
           /\ history[a].decays = 0) =>
            current_drop_percent[a] # history[a].alertDrop)

C8_SameDropDoesNotRealert ==
  \E a \in Assets :
    /\ pc[a] = "sleep"
    /\ history[a].alertDrop >= 0
    /\ history[a].decays = 0
    /\ history[a].reads = 1
    /\ threshold_percent[a] = history[a].alertDrop + OnePercent
    /\ current_drop_percent[a] = history[a].alertDrop
    /\ cycle[a].alertCalls = 0

\* C9: from a persisted threshold T >= 5.0 and while no alert fires, every
\* threshold read that finds a day elapsed lowers the threshold by exactly 1.0
\* floored at 5.0, so after k such reads it is max(5.0, T - k): exactly 5.0
\* once k >= T - 5.0 and from then on; no read returns less than 5.0.
C9_DecayConvergesToBaseline ==
  /\ [][\A a \in Assets :
          (ReadStep(a) /\ store[a].exists /\ now - store[a].last_updated >= OneDay) =>
            /\ store'[a].threshold_percent = Max(Baseline, store[a].threshold_percent - OnePercent)
            /\ store'[a].last_updated = now
            /\ threshold_percent'[a] = store'[a].threshold_percent
            /\ history'[a].decays = history[a].decays + 1]_vars
  /\ [](\A a \in Assets :
          /\ store[a].exists =>
               store[a].threshold_percent =
                 Max(Baseline, history[a].base - history[a].decays * OnePercent)
          /\ InCycle(a) => threshold_percent[a] >= Baseline)

C9_StaysAtBaseline ==
  \E a \in Assets :
    /\ pc[a] = "historical"
    /\ history[a].base > Baseline
    /\ history[a].decays >= 2
    /\ store[a].threshold_percent = Baseline
    /\ threshold_percent[a] = Baseline

\* A monitor that is not running: ended, or never started by a main thread
\* that is gone.
Stopped(a) == Ended(a) \/ (pc[a] = "idle" /\ main_pc \in {"crashed", "exited"})

AllStopped == \A a \in Assets : Stopped(a)

\* C10: once the stop signal is set, by a monitor's fatal failure or by Ctrl-C
\* in the main thread, every monitor eventually stops; a monitor that failed
\* has attempted its failure notification before it ends; and the process
\* exits only after all monitors have stopped.
C10_CoordinatedStop ==
  /\ stop_event ~> AllStopped
  /\ [](\A a \in Assets : pc[a] = "dead" => (cycle[a].errorCalls = 1 /\ stop_event))
  /\ [](main_pc = "exited" => AllStopped)

C10_ExitedAfterFatalFailure ==
  /\ main_pc = "exited"
  /\ stop_event
  /\ \E a \in Assets : pc[a] = "dead" /\ cycle[a].errorCalls = 1
  /\ \E a \in Assets : pc[a] = "stopped"

\* C11: cancellation is cooperative.  The step that sets the stop signal moves
\* no monitor but the one that failed; with the signal set, a monitor inside a
\* cycle takes the same steps as without it (to the next call of the cycle, or
\* to its own except block when that call raises) and is never sent to the
\* exit of the loop; a cycle that has decided to alert goes on to its notifier
\* call and its threshold write; and a top-of-loop check made with the signal
\* set leaves the loop instead of beginning a cycle.
C11_CooperativeCancellation ==
  /\ [][\A a \in Assets :
          /\ (~stop_event /\ stop_event') =>
               /\ pc'[a] # pc[a] => (pc[a] = "set_stop" /\ pc'[a] = "dead")
               /\ cycle'[a] = cycle[a]
               /\ store'[a] = store[a]
          /\ (stop_event /\ pc'[a] # pc[a]) =>
               /\ pc[a] = "check" => pc'[a] = "stopped"
               /\ pc[a] = "threshold" =>
                    \/ pc'[a] = "historical"
                    \/ pc'[a] = "error" /\ cycle'[a].failure = "threshold"
               /\ pc[a] = "historical" =>
                    \/ pc'[a] = "current"
                    \/ pc'[a] = "error" /\ cycle'[a].failure \in {"fetch", "compute"}
               /\ pc[a] = "current" =>
                    \/ pc'[a] = "alert" /\ current_drop_percent'[a] >= threshold_percent[a]
                    \/ pc'[a] = "sleep" /\ current_drop_percent'[a] < threshold_percent[a]
                    \/ pc'[a] = "error" /\ cycle'[a].failure \in {"fetch", "compute"}
               /\ pc[a] = "alert" =>
                    /\ pc'[a] = "tighten"
                    /\ cycle'[a].alertCalls = cycle[a].alertCalls + 1
               /\ pc[a] = "tighten" =>
                    /\ pc'[a] = "sleep"
                    /\ cycle'[a].tightenWrites = cycle[a].tightenWrites + 1
                    /\ store'[a].threshold_percent = current_drop_percent[a] + OnePercent
               /\ pc[a] = "sleep" => pc'[a] = "check"]_vars
  /\ \A a \in Assets :
       (stop_event /\ pc[a] = "alert") ~>
         (pc[a] = "sleep" /\ cycle[a].alertCalls = 1 /\ cycle[a].tightenWrites = 1)

\* The other monitor has failed and set the signal while this one was inside a
\* cycle, which has made its notifier call and is at its threshold write.
C11_CycleGoesOnAfterStop ==
  \E a \in Assets :
    /\ stop_event
    /\ pc[a] = "tighten"
    /\ cycle[a].alertCalls = 1
    /\ \E b \in Assets \ {a} : pc[b] = "dead"

\* C12 as stated: when the historical series has fewer than 10 points, no
\* smoothed peak is computed from it; the cycle fails in the computation and
\* sends no alert and writes no tightened threshold.
C12_ShortSeriesFailsCycle ==
  \A a \in Assets :
    Len(historical_prices[a]) < TopCount =>
      /\ pc[a] \notin {"current", "alert", "tighten"}
      /\ smoothed_peak[a] = 0
      /\ cycle[a].alertCalls = 0
      /\ cycle[a].tightenWrites = 0

\* A series of three points has given a smoothed peak (their mean), and the
\* cycle has alerted on the drop from it and written the tightened threshold.
C12_AlertFromThreePoints ==
  \E a \in Assets :
    /\ historical_prices[a] = <<200, 200, 200>>
    /\ smoothed_peak[a] = 200
    /\ cycle[a].alertCalls = 1
    /\ cycle[a].tightenWrites = 1
    /\ cycle[a].failure = "none"

RECURSIVE SumOfTop(_, _, _)
SumOfTop(s, n, values) ==
  IF values = {} THEN 0
  ELSE LET v == CHOOSE x \in values : TRUE
           has == Cardinality({i \in DOMAIN s : s[i] = v})
           above == Cardinality({i \in DOMAIN s : s[i] > v})
       IN  v * Max(0, Min(has, n - above)) + SumOfTop(s, n, values \ {v})

\* C14: for every series of at least 10 prices, the smoothed peak the monitor
\* computes is the arithmetic mean of the 10 largest values of the series,
\* duplicates counted, and it is the same when two neighbouring prices of the
\* series are exchanged, hence for every permutation of the series.
C14_PeakIsMeanOfTenLargest ==
  /\ [](\A a \in Assets :
          (pc[a] = "current" /\ Len(historical_prices[a]) >= 10) =>
            smoothed_peak[a] =
              SumOfTop(historical_prices[a], 10,
                       {historical_prices[a][i] : i \in DOMAIN historical_prices[a]}) \div 10)
  /\ [][\A a \in Assets :
          (pc[a] = "current" /\ pc'[a] = "current") =>
            smoothed_peak'[a] = smoothed_peak[a]]_vars

\* The peak of an unsorted series of 12 prices whose cut after the 10 largest
\* falls among equal prices: 100 three times and 200 nine times, a low price
\* first; the mean of 9 * 200 and 1 * 100 is 190.
C14_CutInsideEqualPrices ==
  \E a \in Assets :
    /\ pc[a] = "current"
    /\ historical_prices[a] =
         <<100, 200, 200, 100, 200, 200, 200, 100, 200, 200, 200, 200>>
    /\ smoothed_peak[a] = 190

\* C15: in a cycle whose threshold read found a daily decay due, the read has
\* written the decayed threshold (1.0 lower, floored at 5.0) and the alert
\* decision compares the drop with that decayed value; when the drop reaches
\* it, the alert branch then overwrites the decayed state with
\* (drop + 1.0, now), which is the state the cycle ends with.
C15_TightenOverridesDecay ==
  /\ [](\A a \in Assets :
          cycle[a].decayWrites = 1 =>
            LET decayed == Max(Baseline, cycle[a].before.threshold_percent - OnePercent)
            IN  /\ pc[a] \in {"historical", "current", "alert", "tighten", "sleep"} =>
                     threshold_percent[a] = decayed
                /\ pc[a] \in {"historical", "current", "alert", "tighten"} =>
                     store[a].threshold_percent = decayed
                /\ pc[a] \in {"alert", "tighten"} => current_drop_percent[a] >= decayed
                /\ pc[a] = "sleep" =>
                     IF current_drop_percent[a] >= decayed
                     THEN /\ cycle[a].alertCalls = 1
                          /\ cycle[a].tightenWrites = 1
                          /\ store[a].threshold_percent = current_drop_percent[a] + OnePercent
                          /\ store[a].last_updated <= now
                     ELSE /\ cycle[a].alertCalls = 0
                          /\ store[a].threshold_percent = decayed)
  /\ [][\A a \in Assets :
          (pc[a] = "tighten" /\ pc'[a] = "sleep" /\ cycle[a].decayWrites = 1) =>
            store'[a] = [exists |-> TRUE,
                         threshold_percent |-> current_drop_percent[a] + OnePercent,
                         last_updated |-> now]]_vars

\* A cycle has decayed the stored threshold, alerted on a drop that reaches the
\* decayed threshold but not the one stored before, and ended with the
\* tightened state.
C15_AlertOnlyBecauseOfDecay ==
  \E a \in Assets :
    /\ pc[a] = "sleep"
    /\ cycle[a].decayWrites = 1
    /\ cycle[a].tightenWrites = 1
    /\ current_drop_percent[a] < cycle[a].before.threshold_percent
    /\ store[a].threshold_percent = current_drop_percent[a] + OnePercent

\* C16: a cycle whose drop is below the threshold its read returned makes no
\* notifier call and no tighten write, and no step after the read touches the
\* threshold file: at the end of the cycle the file is as the read left it
\* (as before the cycle, or decayed by the read) and holds the threshold the
\* read returned.
C16_NoAlertRecordsNothing ==
  /\ [][\A a \in Assets :
          /\ pc[a] \in {"historical", "current", "sleep"} => store'[a] = store[a]
          /\ (pc[a] = "current" /\ pc'[a] = "sleep") =>
               /\ current_drop_percent'[a] < threshold_percent[a]
               /\ cycle'[a].alertCalls = 0]_vars
  /\ [](\A a \in Assets :
          (pc[a] = "sleep" /\ current_drop_percent[a] < threshold_percent[a]) =>
            /\ cycle[a].alertCalls = 0
            /\ cycle[a].tightenWrites = 0
            /\ cycle[a].outcome = "none"
            /\ threshold_percent[a] =
                 (IF store[a].exists THEN store[a].threshold_percent ELSE Baseline)
            /\ cycle[a].decayWrites = 0 => store[a] = cycle[a].before
            /\ cycle[a].decayWrites = 1 =>
                 /\ store[a].exists
                 /\ store[a].last_updated - cycle[a].before.last_updated >= OneDay)

\* A cycle whose read decayed the threshold has ended without an alert, and
\* the file holds the decayed state the read returned.
C16_QuietCycleAfterDecay ==
  \E a \in Assets :
    /\ pc[a] = "sleep"
    /\ current_drop_percent[a] < threshold_percent[a]
    /\ cycle[a].alertCalls = 0
    /\ cycle[a].decayWrites = 1
    /\ store[a].threshold_percent = threshold_percent[a]
    /\ store[a] # cycle[a].before

C18_LastUpdatedNeverDecreases ==
  /\ [][\A a \in Assets :
          /\ now' >= now
          /\ store[a].exists =>
               /\ store'[a].exists
               /\ store'[a].last_updated >= store[a].last_updated]_vars
  /\ [](\A a \in Assets : store[a].exists => store[a].last_updated <= now)

\* A cycle has moved lastUpdated twice: its read decayed a record at least a
\* day old, and its tighten write came later still.
C18_DecayThenLaterTighten ==
  \E a \in Assets :
    /\ cycle[a].decayWrites = 1
    /\ cycle[a].tightenWrites = 1
    /\ store[a].last_updated > cycle[a].before.last_updated + OneDay

\* C19: starting with no record or with a record whose threshold is at least
\* 5.0, in every reachable state the persisted threshold, and the threshold a
\* read has returned to a monitor inside its cycle, are at least 5.0, and
\* every tighten write persists a threshold of at least 6.0.
C19_ThresholdAtLeastBaseline ==
  /\ [](\A a \in Assets :
          /\ store[a].exists => store[a].threshold_percent >= 5 * Scale
          /\ pc[a] \in {"historical", "current", "alert", "tighten", "sleep"} =>
               threshold_percent[a] >= 5 * Scale)
  /\ [][\A a \in Assets :
          (pc[a] = "tighten" /\ pc'[a] # pc[a]) =>
            /\ store'[a].exists
            /\ store'[a].threshold_percent >= 6 * Scale]_vars

\* A tighten write has just persisted exactly 6.0: the alert was on a drop of
\* 5.0 against the lowest threshold, 5.0.
C19_LowestTightenedThreshold ==
  \E a \in Assets :
    /\ pc[a] = "sleep"
    /\ cycle[a].tightenWrites = 1
    /\ threshold_percent[a] = 5 * Scale
    /\ store[a].threshold_percent = 6 * Scale

\* C20: when an alert fires at a drop that is not above the drop of the
\* asset's previous alert, at least one daily decay has been applied by a
\* threshold read since that alert, and at least one day has passed since the
\* previous alert's tighten write, which followed its notifier call.  (An
\* alert at a drop above the previous one needs neither; so between any two
\* alerts with a drop that did not increase lies a decay, hence a day.)
C20_RealertNeedsADayOfDecay ==
  \A a \in Assets :
    (/\ pc[a] \in {"alert", "tighten"}
     /\ history[a].alertDrop >= 0
     /\ current_drop_percent[a] <= history[a].alertDrop) =>
      /\ history[a].decays >= 1
      /\ now - history[a].at >= OneDay

\* A second alert has fired at the same drop as the previous one, a day and
\* one decay later.
C20_SameDropAlertsADayLater ==
  \E a \in Assets :
    /\ pc[a] = "tighten"
    /\ cycle[a].alertCalls = 1
    /\ history[a].alertDrop = current_drop_percent[a]
    /\ history[a].decays = 1
    /\ now - history[a].at = OneDay

====
